---- MODULE Spec2Model ----
(***************************************************************************)
(* PoQ Sentinel validation engine (src/src/lib/mockValidator.ts).          *)
(*                                                                         *)
(* Strings are TLA+ strings over printable ASCII.  JavaScript numbers are  *)
(* IEEE-754 binary64 values, modelled exactly as sign, binary significand  *)
(* and exponent, with round-to-nearest, ties-to-even after every           *)
(* arithmetic operation.                                                   *)
(***************************************************************************)
EXTENDS Integers, Sequences, FiniteSets, TLC

(***************************************************************************)
(* Unbounded naturals as little-endian sequences of 15-bit limbs (TLC      *)
(* integers are 32 bits wide, a binary64 significand is 53).               *)
(***************************************************************************)
LimbBits == 15
Base == 2 ^ LimbBits

RECURSIVE Limbs(_)
Limbs(n) == IF n = 0 THEN <<>> ELSE <<n % Base>> \o Limbs(n \div Base)

RECURSIVE BVal(_)
BVal(b) == IF b = <<>> THEN 0 ELSE Head(b) + Base * BVal(Tail(b))

BTrim(b) ==
  LET nz == {i \in 1..Len(b) : b[i] # 0}
  IN  IF nz = {} THEN <<>>
      ELSE SubSeq(b, 1, CHOOSE i \in nz : \A j \in nz : j <= i)

BLimb(b, i) == IF i >= 1 /\ i <= Len(b) THEN b[i] ELSE 0

RECURSIVE BAddC(_, _, _, _)
BAddC(a, b, i, c) ==
  IF i > Len(a) /\ i > Len(b) THEN (IF c = 0 THEN <<>> ELSE <<c>>)
  ELSE LET s == BLimb(a, i) + BLimb(b, i) + c
       IN  <<s % Base>> \o BAddC(a, b, i + 1, s \div Base)

BAdd(a, b) == BTrim(BAddC(a, b, 1, 0))

\* a - b for a >= b
RECURSIVE BSubC(_, _, _, _)
BSubC(a, b, i, c) ==
  IF i > Len(a) THEN <<>>
  ELSE LET s == BLimb(a, i) - BLimb(b, i) - c
       IN  <<s % Base>> \o BSubC(a, b, i + 1, IF s < 0 THEN 1 ELSE 0)

BSub(a, b) == BTrim(BSubC(a, b, 1, 0))

\* -1, 0, 1 as a < b, a = b, a > b (both trimmed)
BCmp(a, b) ==
  IF Len(a) > Len(b) THEN 1
  ELSE IF Len(a) < Len(b) THEN -1
  ELSE LET df == {i \in 1..Len(a) : a[i] # b[i]}
       IN  IF df = {} THEN 0
           ELSE LET t == CHOOSE i \in df : \A j \in df : j <= i
                IN  IF a[t] > b[t] THEN 1 ELSE -1

\* a * k for a natural k <= Base
RECURSIVE BMulC(_, _, _, _)
BMulC(a, k, i, c) ==
  IF i > Len(a) THEN (IF c = 0 THEN <<>> ELSE <<c>>)
  ELSE LET s == a[i] * k + c
       IN  <<s % Base>> \o BMulC(a, k, i + 1, s \div Base)

BMulSmall(a, k) == BTrim(BMulC(a, k, 1, 0))

\* a * b, one limb of b at a time
RECURSIVE BMul(_, _)
BMul(a, b) ==
  IF b = <<>> \/ a = <<>> THEN <<>>
  ELSE BAdd(BMulSmall(a, Head(b)), BTrim(<<0>> \o BMul(a, Tail(b))))

\* floor(a / d) and a mod d for 0 < d <= Base, most significant limb first;
\* q is built least significant limb first
RECURSIVE BDivAt(_, _, _, _)
BDivAt(a, d, i, rem) ==
  IF i = 0 THEN [q |-> <<>>, r |-> rem]
  ELSE LET r2   == rem * Base + a[i]
           rest == BDivAt(a, d, i - 1, r2 % d)
       IN  [q |-> Append(rest.q, r2 \div d), r |-> rest.r]

BDivSmall(a, d) ==
  LET x == BDivAt(a, d, Len(a), 0)
  IN  [q |-> BTrim(x.q), r |-> x.r]

\* a * 2^k
BShl(a, k) ==
  IF a = <<>> \/ k <= 0 THEN a
  ELSE [i \in 1..(k \div LimbBits) |-> 0] \o BMulSmall(a, 2 ^ (k % LimbBits))

\* floor(a / 2^k)
BShr(a, k) ==
  IF k <= 0 THEN a
  ELSE IF k \div LimbBits >= Len(a) THEN <<>>
  ELSE BDivSmall(SubSeq(a, k \div LimbBits + 1, Len(a)), 2 ^ (k % LimbBits)).q

\* the number of significant bits of a
BBitLen(a) ==
  IF a = <<>> THEN 0
  ELSE LimbBits * (Len(a) - 1)
         + (CHOOSE n \in 1..LimbBits : 2 ^ (n - 1) <= a[Len(a)] /\ a[Len(a)] < 2 ^ n)

\* bit i of a, the least significant bit being bit 1
BBit(a, i) ==
  IF i < 1 THEN 0
  ELSE (BLimb(a, (i - 1) \div LimbBits + 1) \div 2 ^ ((i - 1) % LimbBits)) % 2

\* bits 1..i-1 of a are all zero
BLowZero(a, i) == \A j \in 1..(i - 1) : BBit(a, j) = 0

(***************************************************************************)
(* IEEE-754 binary64 (the JavaScript Number type): the value               *)
(* (neg ? -1 : 1) * m * 2^e, m odd or zero.  Every operation computes the  *)
(* exact result and rounds it to 53 significant bits, ties to even.        *)
(* Exponent overflow, subnormals, NaN and -0 do not arise for the          *)
(* magnitudes of this program.                                             *)
(***************************************************************************)
Precision == 53

DZero == [neg |-> FALSE, m |-> <<>>, e |-> 0]

\* strip trailing zero bits so that equal values have equal representations
DNorm(x) ==
  IF x.m = <<>> THEN DZero
  ELSE LET tz == (CHOOSE i \in 1..(LimbBits * Len(x.m)) :
                    BBit(x.m, i) = 1 /\ BLowZero(x.m, i)) - 1
       IN  [neg |-> x.neg, m |-> BShr(x.m, tz), e |-> x.e + tz]

\* round the magnitude m * 2^e (sticky: nonzero bits below m were dropped)
DRound(neg, m, e, sticky) ==
  LET q == BBitLen(m) - Precision
  IN  IF q <= 0 THEN DNorm([neg |-> neg, m |-> m, e |-> e])
      ELSE LET keep  == BShr(m, q)
               half  == BBit(m, q) = 1
               below == sticky \/ ~BLowZero(m, q)
               up    == half /\ (below \/ BBit(keep, 1) = 1)
           IN  DNorm([neg |-> neg, m |-> IF up THEN BAdd(keep, <<1>>) ELSE keep,
                      e |-> e + q])

DInt(k) == DNorm([neg |-> k < 0, m |-> Limbs(IF k < 0 THEN 0 - k ELSE k), e |-> 0])

\* -1, 0, 1 as |x| < |y|, |x| = |y|, |x| > |y|
DCmpMag(x, y) ==
  LET e == IF x.e < y.e THEN x.e ELSE y.e
  IN  BCmp(BShl(x.m, x.e - e), BShl(y.m, y.e - e))

DCmp(x, y) ==
  IF x.neg /\ ~y.neg THEN -1
  ELSE IF ~x.neg /\ y.neg THEN 1
  ELSE IF x.neg THEN 0 - DCmpMag(x, y)
  ELSE DCmpMag(x, y)

DLt(x, y) == DCmp(x, y) < 0
DLe(x, y) == DCmp(x, y) <= 0
DGt(x, y) == DCmp(x, y) > 0
DGe(x, y) == DCmp(x, y) >= 0

DNeg(x) == IF x.m = <<>> THEN x ELSE [x EXCEPT !.neg = ~x.neg]

\* x + y
DAdd(x, y) ==
  LET e  == IF x.e < y.e THEN x.e ELSE y.e
      mx == BShl(x.m, x.e - e)
      my == BShl(y.m, y.e - e)
      c  == BCmp(mx, my)
  IN  IF x.neg = y.neg THEN DRound(x.neg, BAdd(mx, my), e, FALSE)
      ELSE IF c = 0 THEN DZero
      ELSE IF c > 0 THEN DRound(x.neg, BSub(mx, my), e, FALSE)
      ELSE DRound(y.neg, BSub(my, mx), e, FALSE)

\* x - y
DSub(x, y) == DAdd(x, DNeg(y))

\* x * y
DMul(x, y) == DRound(x.neg # y.neg, BMul(x.m, y.m), x.e + y.e, FALSE)

\* x / y for y # 0 whose odd part is below Base (every divisor of this
\* program is a small integer): the quotient is developed to more than
\* Precision + 1 bits and the remainder is the sticky bit
DDiv(x, y) ==
  LET k == Precision + 2 + BBitLen(y.m)
      d == BDivSmall(BShl(x.m, k), BVal(y.m))
  IN  DRound(x.neg # y.neg, d.q, x.e - y.e - k, d.r # 0)

\* the decimal literal n / pow10 of the source text: 0.30 is DDec(30, 100)
DDec(n, pow10) == DDiv(DInt(n), DInt(pow10))

\* Math.min, Math.max
MathMin(x, y) == IF DLt(y, x) THEN y ELSE x
MathMax(x, y) == IF DGt(y, x) THEN y ELSE x

DIsInteger(x) == x.e >= 0

\* the TLC integer of an integer-valued double of small magnitude
DToInt(x) ==
  LET v == BVal(BShl(x.m, x.e))
  IN  IF x.neg THEN 0 - v ELSE v

\* Math.round: the integer nearest to x, ties towards +Infinity
MathRound(x) ==
  IF x.e >= 0 THEN x
  ELSE LET f     == 0 - x.e
           int   == BShr(x.m, f)
           half  == BBit(x.m, f) = 1
           below == ~BLowZero(x.m, f)
           up    == IF x.neg THEN half /\ below ELSE half
       IN  DNorm([neg |-> x.neg, m |-> IF up THEN BAdd(int, <<1>>) ELSE int, e |-> 0])

(***************************************************************************)
(* Strings.  A character is a string of length 1; its UTF-16 code unit is  *)
(* its position in the ASCII table (tab and line feed apart).              *)
(***************************************************************************)
AsciiLow == " !\"#$%&'()*+,-./0123456789:;<=>?@ABCDEFGHIJKLMNOPQRSTUVWXYZ[\\]^_"
AsciiHigh == "abcdefghijklmnopqrstuvwxyz{|}~"

Char(s, i) == SubSeq(s, i, i)

\* code units 32..95 and 97..126 (the grave accent, 96, cannot be written)
AsciiCode ==
  [c \in {Char(AsciiLow, i) : i \in 1..Len(AsciiLow)}
           \cup {Char(AsciiHigh, i) : i \in 1..Len(AsciiHigh)} |->
     IF \E i \in 1..Len(AsciiLow) : Char(AsciiLow, i) = c
     THEN 31 + CHOOSE i \in 1..Len(AsciiLow) : Char(AsciiLow, i) = c
     ELSE 96 + CHOOSE i \in 1..Len(AsciiHigh) : Char(AsciiHigh, i) = c]

charCodeAt(s, i) ==
  IF Char(s, i) = "\t" THEN 9
  ELSE IF Char(s, i) = "\n" THEN 10
  ELSE AsciiCode[Char(s, i)]

fromCharCode(n) == IF n <= 95 THEN Char(AsciiLow, n - 31) ELSE Char(AsciiHigh, n - 96)

\* the regular expression classes \s, \w and [A-Z], and the sentence class [.!?]
IsSpace(c) == c \in {" ", "\t", "\n"}
IsUpper(c) == ~IsSpace(c) /\ AsciiCode[c] >= 65 /\ AsciiCode[c] <= 90
IsWordChar(c) ==
  /\ ~IsSpace(c)
  /\ \/ AsciiCode[c] >= 48 /\ AsciiCode[c] <= 57
     \/ AsciiCode[c] >= 65 /\ AsciiCode[c] <= 90
     \/ AsciiCode[c] >= 97 /\ AsciiCode[c] <= 122
     \/ c = "_"

\* String.prototype.toLowerCase, character ranges split in halves
RECURSIVE toLowerCase(_)
toLowerCase(s) ==
  IF Len(s) = 0 THEN ""
  ELSE IF Len(s) = 1 THEN (IF IsUpper(s) THEN fromCharCode(AsciiCode[s] + 32) ELSE s)
  ELSE toLowerCase(SubSeq(s, 1, Len(s) \div 2))
         \o toLowerCase(SubSeq(s, Len(s) \div 2 + 1, Len(s)))

\* String.prototype.trim
trim(s) ==
  LET ns == {i \in 1..Len(s) : ~IsSpace(Char(s, i))}
  IN  IF ns = {} THEN ""
      ELSE SubSeq(s, CHOOSE i \in ns : \A j \in ns : i <= j,
                     CHOOSE i \in ns : \A j \in ns : j <= i)

\* the maximal runs of non-separator characters that start in i..j, in order
RECURSIVE RunsIn(_, _, _, _)
RunsIn(s, sep, i, j) ==
  IF i > j THEN <<>>
  ELSE IF i = j THEN
    IF Char(s, i) \notin sep /\ (i = 1 \/ Char(s, i - 1) \in sep)
    THEN <<SubSeq(s, i, CHOOSE k \in i..Len(s) :
                          /\ k = Len(s) \/ Char(s, k + 1) \in sep
                          /\ \A l \in i..k : Char(s, l) \notin sep)>>
    ELSE <<>>
  ELSE RunsIn(s, sep, i, (i + j) \div 2) \o RunsIn(s, sep, (i + j) \div 2 + 1, j)

\* String.prototype.split on a separator of the form /[sep]+/: the pieces
\* between the maximal runs of separator characters, an empty piece before a
\* leading and after a trailing separator
split(s, sep) ==
  IF s = "" THEN <<"">>
  ELSE (IF Char(s, 1) \in sep THEN <<"">> ELSE <<>>)
         \o RunsIn(s, sep, 1, Len(s))
         \o (IF Char(s, Len(s)) \in sep THEN <<"">> ELSE <<>>)

Whitespace == {" ", "\t", "\n"}
SentenceEnds == {".", "!", "?"}

\* Array.prototype.filter, keeping the order
RECURSIVE FilterIn(_, _, _, _)
FilterIn(seq, keep, i, j) ==
  IF i > j THEN <<>>
  ELSE IF i = j THEN (IF i \in keep THEN <<seq[i]>> ELSE <<>>)
  ELSE FilterIn(seq, keep, i, (i + j) \div 2) \o FilterIn(seq, keep, (i + j) \div 2 + 1, j)

\* text.split(/\s+/).filter(Boolean)
SplitWords(text) ==
  LET parts == split(text, Whitespace)
  IN  FilterIn(parts, {i \in 1..Len(parts) : parts[i] # ""}, 1, Len(parts))

(***************************************************************************)
(* Regular expressions.  Every pattern of the source has the form          *)
(* /\b part part ... \b/i where a part is a literal or an alternation of   *)
(* literals: a pattern is the sequence of its parts, each the set of its   *)
(* alternatives.  No alternative is a proper prefix of another, so the end *)
(* of a match at a given start is unique.                                  *)
(***************************************************************************)
VAGUE_PATTERNS == <<
  <<{"slightly"}>>, <<{"somewhat"}>>, <<{"kind of"}>>, <<{"sort of"}>>,
  <<{"maybe"}>>, <<{"probably"}>>, <<{"might"}>>, <<{"could be"}>>,
  <<{"possibly"}>>, <<{"i think"}>>, <<{"i guess"}>>, <<{"not sure"}>>,
  <<{"perhaps"}>>, <<{"generally"}>>, <<{"usually"}>>, <<{"typically"}>> >>

TEMPLATE_PHRASES == <<
  <<{"please find "}, {"below", "attached", "herein"}>>,
  <<{"as per "}, {"your", "the"}, {" "}, {"request", "instructions"}>>,
  <<{"i have completed the "}, {"task", "assignment"}>>,
  <<{"here is "}, {"my", "the"}, {" "}, {"submission", "response", "answer"}>>,
  <<{"the "}, {"answer", "result", "output"}, {" is as follows"}>>,
  <<{"lorem ipsum"}>>,
  <<{"test test"}>>,
  <<{"asdf"}>>,
  <<{"foo bar"}>> >>

FILLER_PATTERNS == <<
  <<{"in "}, {"order", "terms"}, {" "}, {"of", "to"}>>,
  <<{"it "}, {"is", "should be"}, {" "}, {"noted", "mentioned"}, {" that"}>>,
  <<{"as "}, {"we", "you"}, {" "}, {"can", "know", "may"}, {" "}, {"see", "know", "understand"}>>,
  <<{"at the end of the day"}>>,
  <<{"moving forward"}>>,
  <<{"that being said"}>> >>

\* a pattern literal written with the g flag
RegExpGlobalFlag == TRUE

\* the flags of every pattern literal: i, no g and no y
RegExpGlobal == FALSE

\* the strings a pattern matches between its two \b
RECURSIVE Alternatives(_)
Alternatives(parts) ==
  IF parts = <<>> THEN {""}
  ELSE {a \o b : a \in Head(parts), b \in Alternatives(Tail(parts))}

\* \b holds between characters i - 1 and i of s
WordBoundary(s, i) ==
  (i > 1 /\ IsWordChar(Char(s, i - 1))) # (i <= Len(s) /\ IsWordChar(Char(s, i)))

\* the positions of the text where \b holds
Boundaries(s) == {i \in 1..(Len(s) + 1) : WordBoundary(s, i)}

\* the ends (index after the last character) of the matches that start at
\* character i of the canonicalised text, for a pattern with alternatives alts
MatchEnds(canon, bounds, alts, i) ==
  IF i \notin bounds THEN {}
  ELSE {i + Len(lit) : lit \in {l \in alts :
           /\ i + Len(l) - 1 <= Len(canon)
           /\ SubSeq(canon, i, i + Len(l) - 1) = l
           /\ (i + Len(l)) \in bounds}}

\* RegExp.prototype.test on the text whose lower-cased form is canon, for a
\* pattern object whose lastIndex is li: a global pattern searches from
\* lastIndex and moves it to the end of the match (to 0 without a match), any
\* other searches from the start and leaves lastIndex alone
RegExpTest(parts, canon, bounds, li) ==
  LET from   == IF RegExpGlobal THEN li + 1 ELSE 1
      alts   == Alternatives(parts)
      starts == {i \in bounds : i >= from /\ MatchEnds(canon, bounds, alts, i) # {}}
      start  == CHOOSE i \in starts : \A j \in starts : i <= j
  IN  [found     |-> starts # {},
       lastIndex |-> IF ~RegExpGlobal THEN li
                     ELSE IF starts = {} THEN 0
                     ELSE (CHOOSE n \in MatchEnds(canon, bounds, alts, start) : TRUE) - 1]

\* countMatches: the number of patterns that test true, and the lastIndex of
\* each pattern object afterwards
countMatches(text, patterns, lastIndexes) ==
  LET canon  == toLowerCase(text)
      bounds == Boundaries(canon)
      t      == [i \in 1..Len(patterns) |->
                   RegExpTest(patterns[i], canon, bounds, lastIndexes[i])]
  IN  [count       |-> Cardinality({i \in 1..Len(patterns) : t[i].found}),
       lastIndexes |-> [i \in 1..Len(patterns) |-> t[i].lastIndex]]

(***************************************************************************)
(* JSON-compatible values: [kind, v] with v a string, an integer, a        *)
(* boolean, a sequence of values (array) or a sequence of <<key, value>>   *)
(* pairs in insertion order (object).                                      *)
(***************************************************************************)
JString(str) == [kind |-> "string", v |-> str]
JNumber(n)   == [kind |-> "number", v |-> n]
JBoolean(b)  == [kind |-> "boolean", v |-> b]
JNull        == [kind |-> "null", v |-> 0]
JArray(seq)  == [kind |-> "array", v |-> seq]
JObject(kvs) == [kind |-> "object", v |-> kvs]

\* String(n) for an integer n
RECURSIVE Digits(_)
Digits(n) == IF n < 10 THEN Char("0123456789", n + 1)
             ELSE Digits(n \div 10) \o Char("0123456789", (n % 10) + 1)

NumberToString(n) == IF n < 0 THEN "-" \o Digits(0 - n) ELSE Digits(n)

\* Array.prototype.join of the strings strs[i..j]
RECURSIVE JoinIn(_, _, _, _)
JoinIn(strs, glue, i, j) ==
  IF i > j THEN ""
  ELSE IF i = j THEN strs[i]
  ELSE JoinIn(strs, glue, i, (i + j) \div 2) \o glue
         \o JoinIn(strs, glue, (i + j) \div 2 + 1, j)

join(strs, glue) == JoinIn(strs, glue, 1, Len(strs))

RECURSIVE flattenToText(_)
flattenToText(obj) ==
  IF obj.kind = "string" THEN obj.v
  ELSE IF obj.kind = "number" THEN NumberToString(obj.v)
  ELSE IF obj.kind = "boolean" THEN (IF obj.v THEN "true" ELSE "false")
  ELSE IF obj.kind = "array"
    THEN join([i \in 1..Len(obj.v) |-> flattenToText(obj.v[i])], " ")
  ELSE IF obj.kind = "object"
    THEN join([i \in 1..Len(obj.v) |-> flattenToText(obj.v[i][2])], " ")
  ELSE ""

\* the JSON text of a string: quotes, backslashes and control characters escaped
RECURSIVE Quote(_)
Quote(str) ==
  IF Len(str) = 0 THEN ""
  ELSE IF Len(str) = 1 THEN
    (IF str = "\"" THEN "\\\""
     ELSE IF str = "\\" THEN "\\\\"
     ELSE IF str = "\n" THEN "\\n"
     ELSE IF str = "\t" THEN "\\t"
     ELSE str)
  ELSE Quote(SubSeq(str, 1, Len(str) \div 2)) \o Quote(SubSeq(str, Len(str) \div 2 + 1, Len(str)))

\* JSON.stringify without indentation
RECURSIVE stringify(_)
stringify(obj) ==
  IF obj.kind = "string" THEN "\"" \o Quote(obj.v) \o "\""
  ELSE IF obj.kind = "number" THEN NumberToString(obj.v)
  ELSE IF obj.kind = "boolean" THEN (IF obj.v THEN "true" ELSE "false")
  ELSE IF obj.kind = "array"
    THEN "[" \o join([i \in 1..Len(obj.v) |-> stringify(obj.v[i])], ",") \o "]"
  ELSE IF obj.kind = "object"
    THEN "{" \o join([i \in 1..Len(obj.v) |->
                        "\"" \o Quote(obj.v[i][1]) \o "\":" \o stringify(obj.v[i][2])], ",") \o "}"
  ELSE "null"

(***************************************************************************)
(* Text measures.                                                          *)
(***************************************************************************)
wordCount(text) == Len(SplitWords(text))

uniqueWordRatio(text) ==
  LET words == SplitWords(toLowerCase(text))
  IN  IF Len(words) = 0 THEN DZero
      ELSE DDiv(DInt(Cardinality({words[i] : i \in 1..Len(words)})), DInt(Len(words)))

(***************************************************************************)
(* Scoring functions.  A scorer that tests patterns takes the lastIndex    *)
(* values of the module's pattern objects (rx) and returns them with its   *)
(* score.                                                                  *)
(***************************************************************************)
scoreRelevance(task, submission) ==
  LET tw        == SplitWords(toLowerCase(task))
      taskWords == {tw[i] : i \in {j \in 1..Len(tw) : Len(tw[j]) > 3}}
      sw        == SplitWords(toLowerCase(submission))
      subWords  == FilterIn(sw, {i \in 1..Len(sw) : Len(sw[i]) > 3}, 1, Len(sw))
      hits      == Cardinality({i \in 1..Len(subWords) : subWords[i] \in taskWords})
      overlap   == DDiv(DInt(hits), DInt(Cardinality(taskWords)))
  IN  IF Cardinality(taskWords) = 0 \/ Len(subWords) = 0 THEN DInt(0)
      ELSE IF DLt(overlap, DDec(5, 100)) THEN MathRound(DMul(overlap, DInt(100)))
      ELSE MathMin(DInt(100), MathRound(DMul(overlap, DInt(120))))

\* scoreCompleteness without the tier of 10 to 24 words
scoreCompletenessNoShortTier(task, submission) ==
  LET pieces        == split(task, SentenceEnds)
      taskSentences == FilterIn(pieces, {i \in 1..Len(pieces) : Len(trim(pieces[i])) > 10},
                                1, Len(pieces))
      subLength     == wordCount(submission)
      taskAspects   == IF Len(taskSentences) = 0 THEN 1 ELSE Len(taskSentences)
      coverageBonus == MathMin(DInt(30),
                         DMul(DDiv(DInt(subLength), DMul(DInt(taskAspects), DInt(20))), DInt(30)))
  IN  IF subLength < 10 THEN MathMin(DInt(15), DMul(DInt(subLength), DInt(2)))
      ELSE IF subLength < 50
        THEN MathMin(DInt(55), DAdd(DInt(30), DDiv(DInt(subLength), DInt(2))))
      ELSE MathMin(DInt(100),
             MathRound(DAdd(DAdd(DInt(40), coverageBonus),
                            DMul(uniqueWordRatio(submission), DInt(30)))))

scoreCompleteness(task, submission) ==
  LET pieces        == split(task, SentenceEnds)
      taskSentences == FilterIn(pieces, {i \in 1..Len(pieces) : Len(trim(pieces[i])) > 10},
                                1, Len(pieces))
      subLength     == wordCount(submission)
      taskAspects   == IF Len(taskSentences) = 0 THEN 1 ELSE Len(taskSentences)
      coverageBonus == MathMin(DInt(30),
                         DMul(DDiv(DInt(subLength), DMul(DInt(taskAspects), DInt(20))), DInt(30)))
  IN  IF subLength < 10 THEN MathMin(DInt(15), DMul(DInt(subLength), DInt(2)))
      ELSE IF subLength < 25 THEN MathMin(DInt(35), DAdd(DInt(15), DInt(subLength)))
      ELSE IF subLength < 50
        THEN MathMin(DInt(55), DAdd(DInt(30), DDiv(DInt(subLength), DInt(2))))
      ELSE MathMin(DInt(100),
             MathRound(DAdd(DAdd(DInt(40), coverageBonus),
                            DMul(uniqueWordRatio(submission), DInt(30)))))

\* the sum of score, started at 70, after its four adjustments
clarityScore(words, vagueHits, fillerHits, uniqueness) ==
  70 - vagueHits * 12 - fillerHits * 8
    + (IF DGt(uniqueness, DDec(7, 10)) THEN 15
       ELSE IF DLt(uniqueness, DDec(4, 10)) THEN 0 - 20 ELSE 0)
    - (IF words < 15 THEN 25 ELSE 0)

scoreClarity(submission, rx) ==
  LET vague  == countMatches(submission, VAGUE_PATTERNS, rx.vague)
      filler == countMatches(submission, FILLER_PATTERNS, rx.filler)
      score  == clarityScore(wordCount(submission), vague.count, filler.count,
                             uniqueWordRatio(submission))
  IN  IF wordCount(submission) < 5 THEN [score |-> DInt(0), rx |-> rx]
      ELSE [score |-> MathMax(DInt(0), MathMin(DInt(100), MathRound(DInt(score)))),
            rx    |-> [rx EXCEPT !.vague = vague.lastIndexes,
                                 !.filler = filler.lastIndexes]]

\* submission.match(/[A-Z]/g).length / Math.max(1, submission.length)
capsRatio(submission) ==
  DDiv(DInt(Cardinality({i \in 1..Len(submission) : IsUpper(Char(submission, i))})),
       DInt(IF Len(submission) > 1 THEN Len(submission) ELSE 1))

\* what the repetition of words adds to score
repetitionPenalty(words, ratio) ==
  IF words > 5
  THEN (IF DLt(ratio, DDec(3, 10)) THEN 40 ELSE IF DLt(ratio, DDec(5, 10)) THEN 20 ELSE 0)
  ELSE 0

\* the sum of score, started at 0, without its last addition
spamScoreLong(submission, templateHits, words) ==
  templateHits * 20
    + repetitionPenalty(words, uniqueWordRatio(submission))
    + (IF DGt(capsRatio(submission), DDec(5, 10)) /\ Len(submission) > 20 THEN 15 ELSE 0)

\* the sum of score, started at 0, after its four additions
spamScore(submission, templateHits, words) ==
  spamScoreLong(submission, templateHits, words)
    + (IF words < 10 /\ templateHits > 0 THEN 25 ELSE 0)

\* scoreSpam returning its sum without the final Math.min(100, ...)
scoreSpamUnclamped(submission, rx) ==
  LET template == countMatches(submission, TEMPLATE_PHRASES, rx.template)
  IN  [score |-> DInt(spamScore(submission, template.count,
                                Len(SplitWords(toLowerCase(submission))))),
       rx    |-> [rx EXCEPT !.template = template.lastIndexes]]

\* scoreSpam without the penalty for a short submission that matches a template
scoreSpamNoShortPenalty(submission, rx) ==
  LET template == countMatches(submission, TEMPLATE_PHRASES, rx.template)
  IN  [score |-> MathMin(DInt(100),
                   DInt(spamScoreLong(submission, template.count,
                                      Len(SplitWords(toLowerCase(submission)))))),
       rx    |-> [rx EXCEPT !.template = template.lastIndexes]]

scoreSpam(submission, rx) ==
  LET template == countMatches(submission, TEMPLATE_PHRASES, rx.template)
  IN  [score |-> MathMin(DInt(100),
                   DInt(spamScore(submission, template.count,
                                  Len(SplitWords(toLowerCase(submission)))))),
       rx    |-> [rx EXCEPT !.template = template.lastIndexes]]

(***************************************************************************)
(* Gated verdict logic.  (The dash of the reason texts is written "-".)    *)
(***************************************************************************)
GateFailure(gate, reason, forced) == [gate |-> gate, reason |-> reason, forced |-> forced]

\* some comparing the gate name, not the forced verdict, with its argument
someGateNamed(failures, forced) == \E i \in 1..Len(failures) : failures[i].gate = forced

some(failures, forced) == \E i \in 1..Len(failures) : failures[i].forced = forced

\* if (cond) failures.push(failure)
push(failures, cond, failure) == IF cond THEN Append(failures, failure) ELSE failures

\* if (cond && !failures.some(f => f.forced === "REJECT")) failures.push(failure)
pushUnlessRejected(failures, cond, failure) ==
  IF cond /\ ~some(failures, "REJECT") THEN Append(failures, failure) ELSE failures

evaluateGates(breakdown, submissionText, rx) ==
  LET vague == countMatches(submissionText, VAGUE_PATTERNS, rx.vague)
      f1 == push(<<>>, DLt(breakdown.relevance, DInt(15)),
              GateFailure("RELEVANCE_FLOOR",
                "Relevance below 15 - submission does not address the task", "REJECT"))
      f2 == push(f1, DLt(breakdown.clarity, DInt(10)),
              GateFailure("CLARITY_FLOOR",
                "Clarity below 10 - submission is incoherent or entirely vague", "REJECT"))
      f3 == push(f2, DGt(breakdown.spam, DInt(60)),
              GateFailure("SPAM_CEILING",
                "Spam score exceeds 60 - high likelihood of template abuse or repetition",
                "REJECT"))
      f4 == push(f3, wordCount(submissionText) < 8,
              GateFailure("MIN_LENGTH",
                "Submission under 8 words - insufficient content for evaluation", "REJECT"))
      f5 == pushUnlessRejected(f4, DGt(breakdown.spam, DInt(30)),
              GateFailure("SPAM_WARNING",
                "Spam score exceeds 30 - cannot be auto-accepted, requires human review",
                "REVIEW"))
      f6 == pushUnlessRejected(f5, DLt(breakdown.completeness, DInt(40)),
              GateFailure("COMPLETENESS_FLOOR",
                "Completeness below 40 - submission is partial or superficial", "REVIEW"))
      f7 == pushUnlessRejected(f6, vague.count >= 3,
              GateFailure("VAGUE_LANGUAGE",
                "3+ vague qualifiers detected - hedging language undermines confidence",
                "REVIEW"))
  IN  [failures |-> f7, rx |-> [rx EXCEPT !.vague = vague.lastIndexes]]

\* computeVerdict testing the score before the gates
computeVerdictScoreFirst(qualityScore, gateFailures) ==
  LET hasReject == some(gateFailures, "REJECT")
      hasReview == some(gateFailures, "REVIEW")
  IN  IF DLt(qualityScore, DInt(50)) THEN "REJECT"
      ELSE IF DGe(qualityScore, DInt(75)) /\ ~hasReview THEN "ACCEPT"
      ELSE IF hasReject THEN "REJECT"
      ELSE "REVIEW"

\* computeVerdict without the test of the REVIEW gates
computeVerdictScoreOnly(qualityScore, gateFailures) ==
  LET hasReject == some(gateFailures, "REJECT")
  IN  IF hasReject THEN "REJECT"
      ELSE IF DLt(qualityScore, DInt(50)) THEN "REJECT"
      ELSE IF DLt(qualityScore, DInt(75)) THEN "REVIEW"
      ELSE "ACCEPT"

computeVerdict(qualityScore, gateFailures) ==
  LET hasReject == some(gateFailures, "REJECT")
      hasReview == some(gateFailures, "REVIEW")
  IN  IF hasReject THEN "REJECT"
      ELSE IF DLt(qualityScore, DInt(50)) THEN "REJECT"
      ELSE IF DLt(qualityScore, DInt(75)) \/ hasReview THEN "REVIEW"
      ELSE "ACCEPT"

(***************************************************************************)
(* Hash utility.  A bitwise operator works on the signed 32-bit integer of *)
(* its operand; the intermediate (h << 5) - h + c does not fit one, so an  *)
(* integer is kept as hi * 2^16 + lo with 0 <= lo < 2^16.                  *)
(***************************************************************************)
Half == 2 ^ 16

Wide(hi, lo) == [hi |-> hi + lo \div Half, lo |-> lo % Half]

\* ToInt32: modulo 2^32 into [-2^31, 2^31 - 1]
ToInt32(w) == [hi |-> ((w.hi + Half \div 2) % Half) - Half \div 2, lo |-> w.lo]

\* h << 5
ShiftLeft5(h) == ToInt32(Wide(ToInt32(h).hi * 32, ToInt32(h).lo * 32))

WSub(a, b) == Wide(a.hi - b.hi, a.lo - b.lo)
WAdd(a, n) == Wide(a.hi, a.lo + n)

\* the step without the closing | 0
HashStepNoWrap(h, code) == WAdd(WSub(ShiftLeft5(h), h), code)

\* h = ((h << 5) - h + input.charCodeAt(i)) | 0
HashStep(h, code) == ToInt32(WAdd(WSub(ShiftLeft5(h), h), code))

\* the loop over characters i..j, in order: the first half, then the second
\* from the value of h the first half leaves (bound through a singleton set,
\* which TLC evaluates before it descends into the second half)
RECURSIVE HashLoop(_, _, _, _)
HashLoop(input, h, i, j) ==
  IF i > j THEN h
  ELSE IF i = j THEN HashStep(h, charCodeAt(input, i))
  ELSE CHOOSE r \in {HashLoop(input, mid, (i + j) \div 2 + 1, j) :
                       mid \in {HashLoop(input, h, i, (i + j) \div 2)}} : TRUE

\* Math.abs
WAbs(w) == IF w.hi < 0 THEN Wide(0 - w.hi, 0 - w.lo) ELSE w

\* Number.prototype.toString(16) of a natural below 2^16, at least width digits
RECURSIVE Hex(_, _)
Hex(n, width) ==
  IF n < 16 /\ width <= 1 THEN Char("0123456789abcdef", n + 1)
  ELSE Hex(n \div 16, width - 1) \o Char("0123456789abcdef", (n % 16) + 1)

toString16(w) == IF w.hi = 0 THEN Hex(w.lo, 1) ELSE Hex(w.hi, 1) \o Hex(w.lo, 4)

\* String.prototype.padStart(width, "0")
padStart(str, width) ==
  IF Len(str) >= width THEN str
  ELSE join([i \in 1..(width - Len(str)) |-> "0"], "") \o str

HashResult(h) == "0x" \o padStart(toString16(WAbs(h)), 16)

hash(input) == HashResult(HashLoop(input, Wide(0, 0), 1, Len(input)))

(***************************************************************************)
(* Main entry point.  now is the wall clock read by new Date().            *)
(***************************************************************************)
\* the weighted aggregation of lines 243-248
aggregate(breakdown) ==
  MathRound(
    DAdd(DAdd(DAdd(DMul(breakdown.relevance, DDec(30, 100)),
                   DMul(breakdown.completeness, DDec(30, 100))),
              DMul(breakdown.clarity, DDec(25, 100))),
         DMul(DSub(DInt(100), breakdown.spam), DDec(15, 100))))

\* Date.prototype.toISOString of the instant now milliseconds after the epoch,
\* within the first second
toISOString(now) ==
  "1970-01-01T00:00:00." \o Digits(now \div 100) \o Digits((now \div 10) % 10)
    \o Digits(now % 10) \o "Z"

\* an attestation built before the gates are evaluated
attestationBeforeGates(now, taskStr, submission, qualityScore, breakdown, verdict, gateFailures) ==
  [version        |-> "2.0.0",
   timestamp      |-> toISOString(now),
   taskHash       |-> hash(taskStr),
   submissionHash |-> hash(stringify(submission)),
   qualityScore   |-> qualityScore,
   breakdown      |-> breakdown,
   verdict        |-> computeVerdict(qualityScore, <<>>),
   gateFailures   |-> <<>>,
   validatorId    |-> "poq-sentinel-v2",
   signature      |-> hash(taskStr \o stringify(submission)
                             \o NumberToString(DToInt(qualityScore)))]

attestation(now, taskStr, submission, qualityScore, breakdown, verdict, gateFailures) ==
  [version        |-> "2.0.0",
   timestamp      |-> toISOString(now),
   taskHash       |-> hash(taskStr),
   submissionHash |-> hash(stringify(submission)),
   qualityScore   |-> qualityScore,
   breakdown      |-> breakdown,
   verdict        |-> verdict,
   gateFailures   |-> gateFailures,
   validatorId    |-> "poq-sentinel-v2",
   signature      |-> hash(taskStr \o stringify(submission)
                             \o NumberToString(DToInt(qualityScore)))]

\* the return statement
ValidationResult(now, taskStr, submission, qualityScore, breakdown, verdict, gates) ==
  [result |-> [qualityScore |-> qualityScore,
               breakdown    |-> breakdown,
               verdict      |-> verdict,
               gateFailures |-> gates.failures,
               attestation  |-> attestation(now, taskStr, submission, qualityScore,
                                            breakdown, verdict, gates.failures)],
   rx     |-> gates.rx]

\* from the gates on
gated(now, taskStr, submission, qualityScore, breakdown, gates) ==
  ValidationResult(now, taskStr, submission, qualityScore, breakdown,
                   computeVerdict(qualityScore, gates.failures), gates)

\* from the weighted aggregation on
aggregated(now, taskStr, submission, submissionText, breakdown, rx) ==
  gated(now, taskStr, submission, aggregate(breakdown), breakdown,
        evaluateGates(breakdown, submissionText, rx))

\* the breakdown, from the scores of clarity and spam on
scored(now, taskStr, submission, submissionText, clarity, spam) ==
  aggregated(now, taskStr, submission, submissionText,
             [relevance    |-> scoreRelevance(taskStr, submissionText),
              completeness |-> scoreCompleteness(taskStr, submissionText),
              clarity      |-> clarity.score,
              spam         |-> spam.score],
             spam.rx)

\* the pattern objects pass from scoreClarity to scoreSpam
clarified(now, taskStr, submission, submissionText, clarity) ==
  scored(now, taskStr, submission, submissionText, clarity,
         scoreSpam(submissionText, clarity.rx))

runValidation(task, submission, now, rx) ==
  clarified(now, IF task.kind = "string" THEN task.v ELSE stringify(task),
            submission, flattenToText(submission),
            scoreClarity(flattenToText(submission), rx))

(***************************************************************************)
(* Bounds of the model.                                                    *)
(***************************************************************************)
\* the longest "items" array of a submission
MaxItems == 1
\* the calls of runValidation made on one input
MaxCalls == 2

(***************************************************************************)
(* The inputs of runValidation: tasks (a string, or any other value a      *)
(* caller passes) and submissions {"answer": text, "items": [1, ..., k]}.  *)
(***************************************************************************)
RatesTask    == JString("Summarize the impact of rising interest rates on housing markets")
EmptyTask    == JString("")
ObjectTask   == JObject(<< <<"goal", JString("describe lorem ipsum usage")>> >>)
KeywordsTask == JString("alpha bravo charlie delta echoes foxtrot golfing hotel india.")

Cases == <<
  [task |-> RatesTask, answer |-> "lorem ipsum lorem ipsum lorem ipsum dolor"],
  [task |-> RatesTask, answer |->
     "Rising interest rates increase mortgage costs, reducing buyer demand and cooling home price growth across most regions."],
  [task |-> RatesTask, answer |->
     "Rising interest rates impact housing markets because mortgage costs climb while buyer demand falls and sellers reduce prices so regional growth cools across most cities"],
  [task |-> KeywordsTask, answer |->
     "maybe probably possibly moving forward asdf test test alpha a b c d e f a b c d e f a b c d e f a b c d e f a b c d e f a b c d e f a b c d e f a b c d e f"],
  [task |-> RatesTask, answer |->
     "asdf test test lorem ipsum foo bar asdf asdf asdf asdf asdf asdf asdf asdf asdf asdf asdf asdf asdf asdf"],
  [task |-> RatesTask, answer |->
     "rising interest rates housing markets rising interest rates housing markets impact"],
  [task |-> RatesTask, answer |->
     "maybe probably possibly perhaps generally usually typically"],
  [task |-> EmptyTask, answer |-> "Caching keeps recent results close to the reader"],
  [task |-> ObjectTask, answer |->
     "Lorem ipsum usage is described here as placeholder text for page layouts"],
  [task |-> RatesTask, answer |-> ""],
  [task |-> RatesTask, answer |-> "RISING INTEREST RATES HURT HOUSING MARKETS BADLY"],
  [task |-> RatesTask, answer |-> "asdf asdf asdf asdf asdf asdf"],
  [task |-> RatesTask, answer |->
     "I think rates might rise, so prices could be lower. Moving forward, in order to decide, it is noted that data helps."],
  [task |-> RatesTask, answer |->
     "Rising interest rates impact housing markets because mortgage costs climb while buyer demand falls and sellers reduce prices so regional growth cools across most"],
  [task |-> RatesTask, answer |->
     "Rising interest rates impact housing markets because mortgage costs climb while buyer demand falls and sellers reduce prices so regional growth cools across most cities and lenders tighten credit standards which slows new construction starts limits refinancing activity pushes renters to stay longer raises payments for first time buyers"] >>

Submission(answer, k) ==
  JObject(<< <<"answer", JString(answer)>>,
             <<"items", JArray([j \in 1..k |-> JNumber(j)])>> >>)

\* the pattern objects as the module creates them: lastIndex 0
FreshPatterns ==
  [vague    |-> [i \in 1..Len(VAGUE_PATTERNS) |-> 0],
   template |-> [i \in 1..Len(TEMPLATE_PHRASES) |-> 0],
   filler   |-> [i \in 1..Len(FILLER_PATTERNS) |-> 0]]

NoResult == [called |-> FALSE]

\* the strings hash is followed on, character by character
HashInputs == <<
  "",
  "a",
  "hello world",
  "polygenelubricants",
  RatesTask.v,
  stringify(Submission(Cases[1].answer, MaxItems)),
  RatesTask.v \o stringify(Submission(Cases[1].answer, MaxItems)) \o "21" >>

\* the texts evaluateGates is applied to, with their number of words and of
\* vague patterns that match
GateTexts == <<
  [text |-> "one two three four five six seven", words |-> 7, vague |-> 0],
  [text |-> "one two three four five six seven eight", words |-> 8, vague |-> 0],
  [text |-> "maybe it is probably fine or not really", words |-> 8, vague |-> 2],
  [text |-> "Maybe maybe MAYBE it is probably, probably fine today", words |-> 9, vague |-> 2],
  [text |-> "maybe it is probably fine, possibly not so", words |-> 8, vague |-> 3],
  [text |-> "I think this might perhaps work", words |-> 6, vague |-> 3],
  [text |-> "mighty maybes are not sure things, I guess; kind of usually", words |-> 11, vague |-> 4] >>

\* the scores evaluateGates is applied to, around the thresholds of its gates
GateScores ==
  [relevance : {0, 14, 15}, completeness : {39, 40}, clarity : {9, 10, 100},
   spam : {0, 30, 31, 60, 61, 100}]

\* the gates of evaluateGates, in the order it tests them
KnownGates == <<
  [gate |-> "RELEVANCE_FLOOR", forced |-> "REJECT"],
  [gate |-> "CLARITY_FLOOR", forced |-> "REJECT"],
  [gate |-> "SPAM_CEILING", forced |-> "REJECT"],
  [gate |-> "MIN_LENGTH", forced |-> "REJECT"],
  [gate |-> "SPAM_WARNING", forced |-> "REVIEW"],
  [gate |-> "COMPLETENESS_FLOOR", forced |-> "REVIEW"],
  [gate |-> "VAGUE_LANGUAGE", forced |-> "REVIEW"] >>

\* the list of the gates picked, in order
GateList(picked) ==
  [n \in 1..Cardinality(picked) |->
     LET i == CHOOSE j \in picked : Cardinality({m \in picked : m < j}) = n - 1
     IN  GateFailure(KnownGates[i].gate, "", KnownGates[i].forced)]

VARIABLES
  task,        \* the task of the caller
  submission,  \* the submission of the caller
  rx,          \* lastIndex of the module's pattern objects
  clock,       \* the wall clock, in milliseconds
  calls,       \* the calls of runValidation made so far
  first,       \* the ValidationResult of the first call
  result,      \* the ValidationResult of the last call
  hInput,      \* hash: its argument
  hPos,        \* hash: the characters consumed
  hAcc,        \* hash: the accumulator h
  hOut,        \* hash: the string returned, "" before
  gInput,      \* evaluateGates: the scores and the text it is applied to
  gOut,        \* evaluateGates: the list returned
  vInput,      \* computeVerdict: its arguments
  vOut         \* computeVerdict: the verdict returned, "" before

mainVars    == <<task, submission, rx, clock, calls, first, result>>
hashVars    == <<hInput, hPos, hAcc, hOut>>
gateVars    == <<gInput, gOut>>
verdictVars == <<vInput, vOut>>
vars        == <<mainVars, hashVars, gateVars, verdictVars>>

MainIdle ==
  /\ task = JNull /\ submission = JNull /\ rx = FreshPatterns /\ clock = 0
  /\ calls = 0 /\ first = NoResult /\ result = NoResult

HashIdle == hInput = "" /\ hPos = 0 /\ hAcc = Wide(0, 0) /\ hOut = ""

GatesIdle == gInput = NoResult /\ gOut = NoResult

VerdictIdle == vInput = NoResult /\ vOut = ""

(***************************************************************************)
(* runValidation, called on one input again and again.                     *)
(***************************************************************************)
Init ==
  /\ \E c \in 1..Len(Cases), k \in 0..MaxItems :
       /\ task = Cases[c].task
       /\ submission = Submission(Cases[c].answer, k)
  /\ rx = FreshPatterns
  /\ clock = 0
  /\ calls = 0
  /\ first = NoResult
  /\ result = NoResult
  /\ HashIdle /\ GatesIdle /\ VerdictIdle

\* one call runValidation(task, submission); the clock is read when the
\* attestation is built, elapsed milliseconds after the call began
Validate ==
  /\ calls < MaxCalls
  /\ \E elapsed \in 0..1 :
       LET r == runValidation(task, submission, clock + elapsed, rx)
       IN  /\ result' = r.result
           /\ rx' = r.rx
           /\ first' = IF calls = 0 THEN r.result ELSE first
           /\ clock' = clock + elapsed
  /\ calls' = calls + 1
  /\ UNCHANGED <<task, submission, hashVars, gateVars, verdictVars>>

Next == Validate

Spec == Init /\ [][Next]_vars

(***************************************************************************)
(* hash, one character at a time.                                          *)
(***************************************************************************)
HashInit ==
  /\ hInput \in {HashInputs[i] : i \in 1..Len(HashInputs)}
  /\ hPos = 0
  /\ hAcc = Wide(0, 0)
  /\ hOut = ""
  /\ MainIdle /\ GatesIdle /\ VerdictIdle

\* one turn of the loop
HashChar ==
  /\ hOut = ""
  /\ hPos < Len(hInput)
  /\ hAcc' = HashStep(hAcc, charCodeAt(hInput, hPos + 1))
  /\ hPos' = hPos + 1
  /\ UNCHANGED <<hInput, hOut, mainVars, gateVars, verdictVars>>

\* the return statement
HashReturn ==
  /\ hOut = ""
  /\ hPos = Len(hInput)
  /\ hOut' = HashResult(hAcc)
  /\ UNCHANGED <<hInput, hPos, hAcc, mainVars, gateVars, verdictVars>>

HashNext == HashChar \/ HashReturn

SpecHash == HashInit /\ [][HashNext]_vars

(***************************************************************************)
(* evaluateGates, applied to scores around its thresholds.                 *)
(***************************************************************************)
GatesInit ==
  /\ gInput \in [scores : GateScores, text : 1..Len(GateTexts)]
  /\ gOut = NoResult
  /\ MainIdle /\ HashIdle /\ VerdictIdle

EvaluateGates ==
  /\ ~gOut.called
  /\ gOut' = [called   |-> TRUE,
              failures |-> evaluateGates(
                             [relevance    |-> DInt(gInput.scores.relevance),
                              completeness |-> DInt(gInput.scores.completeness),
                              clarity      |-> DInt(gInput.scores.clarity),
                              spam         |-> DInt(gInput.scores.spam)],
                             GateTexts[gInput.text].text, FreshPatterns).failures]
  /\ UNCHANGED <<gInput, mainVars, hashVars, verdictVars>>

GatesNext == EvaluateGates

SpecGates == GatesInit /\ [][GatesNext]_vars

(***************************************************************************)
(* computeVerdict, applied to every score and every list of gates.         *)
(***************************************************************************)
VerdictInit ==
  /\ vInput \in [qualityScore : 0..100,
                 gateFailures : {GateList(picked) : picked \in SUBSET (1..Len(KnownGates))}]
  /\ vOut = ""
  /\ MainIdle /\ HashIdle /\ GatesIdle

ComputeVerdict ==
  /\ vOut = ""
  /\ vOut' = computeVerdict(DInt(vInput.qualityScore), vInput.gateFailures)
  /\ UNCHANGED <<vInput, mainVars, hashVars, gateVars>>

VerdictNext == ComputeVerdict

SpecVerdict == VerdictInit /\ [][VerdictNext]_vars

(***************************************************************************)
(* Properties of runValidation (under Spec).                               *)
(***************************************************************************)
\* twice a score, an integer for every score that is a multiple of 1/2
TwiceScore(x) == DToInt(DMul(x, DInt(2)))

\* 200 times the weighted sum 0.30 r + 0.30 c + 0.25 cl + 0.15 (100 - s) of a
\* breakdown, in exact integer arithmetic
WeightedSum200(b) ==
  30 * TwiceScore(b.relevance) + 30 * TwiceScore(b.completeness)
    + 25 * TwiceScore(b.clarity) + 15 * (200 - TwiceScore(b.spam))

\* that sum rounded to the nearest integer
RoundedWeightedSum(b) == (WeightedSum200(b) + 100) \div 200

\* C1: the qualityScore of every result is an integer in [0,100] and equals
\* round(0.30 relevance + 0.30 completeness + 0.25 clarity + 0.15 (100 - spam))
\* of the breakdown of the same result
C1_QualityScoreIsRoundedWeightedSum ==
  calls > 0 =>
    /\ DIsInteger(result.qualityScore)
    /\ DToInt(result.qualityScore) \in 0..100
    /\ DToInt(result.qualityScore) = RoundedWeightedSum(result.breakdown)

InRange(x) == DGe(x, DInt(0)) /\ DLe(x, DInt(100))

\* C2: every field of the breakdown of every result lies in [0,100]
C2_BreakdownInRange ==
  calls > 0 =>
    /\ InRange(result.breakdown.relevance)
    /\ InRange(result.breakdown.completeness)
    /\ InRange(result.breakdown.clarity)
    /\ InRange(result.breakdown.spam)

\* four template phrases and heavy repetition at once: the spam score is 100
C2_SpamClamped ==
  /\ calls > 0
  /\ submission = Submission(Cases[5].answer, 0)
  /\ result.breakdown.spam = DInt(100)

\* the fields two results of the same input must share
SameButTimestamp(a, b) ==
  /\ a.qualityScore = b.qualityScore
  /\ a.breakdown = b.breakdown
  /\ a.verdict = b.verdict
  /\ a.gateFailures = b.gateFailures
  /\ a.attestation.taskHash = b.attestation.taskHash
  /\ a.attestation.submissionHash = b.attestation.submissionHash
  /\ a.attestation.signature = b.attestation.signature

\* C6: every later call on the same (task, submission) returns what the first
\* call returned, the attestation timestamp aside, and no call leaves a trace
\* in the pattern objects, the only state a later call could read
C6_Deterministic ==
  /\ rx = FreshPatterns
  /\ calls >= 2 => SameButTimestamp(first, result)

\* a second call that returned a later timestamp, with gates recorded
C6_SecondCallLater ==
  /\ calls >= 2
  /\ result.attestation.timestamp # first.attestation.timestamp
  /\ result.gateFailures # <<>>

\* C7: the qualityScore, breakdown, verdict and gateFailures of the attestation
\* are those of the result that holds it
C7_AttestationMirrorsResult ==
  calls > 0 =>
    /\ result.attestation.qualityScore = result.qualityScore
    /\ result.attestation.breakdown = result.breakdown
    /\ result.attestation.verdict = result.verdict
    /\ result.attestation.gateFailures = result.gateFailures

\* a result rejected by gates, with them in its attestation
C7_RejectedWithGates ==
  /\ calls > 0
  /\ result.verdict = "REJECT"
  /\ Len(result.attestation.gateFailures) >= 2

\* C8: every score of the breakdown is an integer
C8_ScoresAreIntegers ==
  calls > 0 =>
    /\ DIsInteger(result.breakdown.relevance)
    /\ DIsInteger(result.breakdown.completeness)
    /\ DIsInteger(result.breakdown.clarity)
    /\ DIsInteger(result.breakdown.spam)

\* the case of C10: more than 5 and fewer than 10 words, a template phrase
\* matches, fewer than half of the words are distinct
ShortRepeatedTemplate(text) ==
  LET words == SplitWords(toLowerCase(text))
  IN  /\ Len(words) > 5 /\ Len(words) < 10
      /\ countMatches(text, TEMPLATE_PHRASES, FreshPatterns.template).count >= 1
      /\ 2 * Cardinality({words[i] : i \in 1..Len(words)}) < Len(words)

\* C10: a short, repetitive submission that matches a template phrase gets a
\* spam score above 60, the gate SPAM_CEILING and the verdict REJECT
C10_ShortTemplateRejected ==
  (calls > 0 /\ ShortRepeatedTemplate(flattenToText(submission))) =>
    /\ DToInt(result.breakdown.spam) > 60
    /\ \E i \in 1..Len(result.gateFailures) : result.gateFailures[i].gate = "SPAM_CEILING"
    /\ result.verdict = "REJECT"

\* scenario 3 validated: spam 65
C10_LoremIpsumValidated ==
  /\ calls > 0
  /\ ShortRepeatedTemplate(flattenToText(submission))
  /\ submission = Submission(Cases[1].answer, 0)
  /\ DToInt(result.breakdown.spam) = 65

\* the gates recorded that force the verdict to
Recorded(to) ==
  {result.gateFailures[i].gate :
     i \in {j \in 1..Len(result.gateFailures) : result.gateFailures[j].forced = to}}

\* C11: a submission whose flattened text has fewer than 25 words is never
\* accepted: its completeness is at most 35, and a gate that forces REJECT or
\* the gate COMPLETENESS_FLOOR is recorded; and completeness is below 40
\* exactly when the text has fewer than 25 words
C11_ShortNeverAccepted ==
  calls > 0 =>
    /\ wordCount(flattenToText(submission)) < 25 =>
         /\ result.verdict # "ACCEPT"
         /\ DLe(result.breakdown.completeness, DInt(35))
         /\ Recorded("REJECT") # {} \/ "COMPLETENESS_FLOOR" \in Recorded("REVIEW")
    /\ DLt(result.breakdown.completeness, DInt(40))
         <=> wordCount(flattenToText(submission)) < 25

\* 24 words that score 77: held for review by COMPLETENESS_FLOOR alone
C11_HighScoreHeldForReview ==
  /\ calls > 0
  /\ wordCount(flattenToText(submission)) = 24
  /\ DToInt(result.qualityScore) = 77
  /\ result.verdict = "REVIEW"
  /\ Recorded("REJECT") = {}
  /\ Recorded("REVIEW") = {"COMPLETENESS_FLOOR"}

(***************************************************************************)
(* Properties of computeVerdict (under SpecVerdict).                        *)
(***************************************************************************)
Forced(failures, to) == {i \in 1..Len(failures) : failures[i].forced = to}

\* C3: a list with a gate that forces REJECT gives the verdict REJECT, for
\* every score from 0 to 100
C3_RejectGateOverrides ==
  (vOut # "" /\ Forced(vInput.gateFailures, "REJECT") # {}) => vOut = "REJECT"

\* the score 90 with a gate that forces REJECT: rejected
C3_Score90Rejected ==
  /\ vOut = "REJECT"
  /\ vInput.qualityScore = 90
  /\ Forced(vInput.gateFailures, "REJECT") # {}

\* C4: the verdict is ACCEPT exactly when the score is at least 75 and the
\* list of gate failures is empty
C4_AcceptIffHighAndClean ==
  vOut # "" =>
    (vOut = "ACCEPT" <=> (vInput.qualityScore >= 75 /\ Len(vInput.gateFailures) = 0))

\* the score 75 without gate failures: accepted
C4_Score75Accepted ==
  /\ vOut = "ACCEPT"
  /\ vInput.qualityScore = 75
  /\ Len(vInput.gateFailures) = 0

(***************************************************************************)
(* Properties of evaluateGates (under SpecGates).                          *)
(***************************************************************************)
\* the gates whose own condition holds, by their place in KnownGates
GateHolds(in) ==
  {i \in 1..Len(KnownGates) :
     \/ i = 1 /\ in.scores.relevance < 15
     \/ i = 2 /\ in.scores.clarity < 10
     \/ i = 3 /\ in.scores.spam > 60
     \/ i = 4 /\ GateTexts[in.text].words < 8
     \/ i = 5 /\ in.scores.spam > 30
     \/ i = 6 /\ in.scores.completeness < 40
     \/ i = 7 /\ GateTexts[in.text].vague >= 3}

\* the list the gates are to give: the REJECT gates that hold or, when none
\* does, the REVIEW gates that hold
GatesDue(in) ==
  IF GateHolds(in) \cap 1..4 # {} THEN GateHolds(in) \cap 1..4 ELSE GateHolds(in)

Shown(failures) ==
  [i \in 1..Len(failures) |-> [gate |-> failures[i].gate, forced |-> failures[i].forced]]

Listed(picked) ==
  [n \in 1..Cardinality(picked) |->
     KnownGates[CHOOSE j \in picked : Cardinality({m \in picked : m < j}) = n - 1]]

\* C5: evaluateGates returns the REJECT gates whose condition holds, in order,
\* or, when there is none, the REVIEW gates whose condition holds, in order;
\* never both kinds, never a gate twice
C5_GatesAsListed ==
  gOut.called =>
    /\ Shown(gOut.failures) = Listed(GatesDue(gInput))
    /\ Forced(gOut.failures, "REJECT") = {} \/ Forced(gOut.failures, "REVIEW") = {}
    /\ \A i, j \in 1..Len(gOut.failures) :
         gOut.failures[i].gate = gOut.failures[j].gate => i = j

\* only SPAM_CEILING returned although the three REVIEW conditions hold
C5_ReviewSuppressed ==
  /\ gOut.called
  /\ GateHolds(gInput) = {3, 5, 6, 7}
  /\ Shown(gOut.failures) = <<KnownGates[3]>>

(***************************************************************************)
(* Properties of hash (under SpecHash).                                    *)
(***************************************************************************)
\* hi * 2^16 + lo of 31 h + c modulo 2^32, from the two halves of h modulo 2^32
Times31Plus(u, c) ==
  [hi |-> (31 * u.hi + (31 * u.lo + c) \div Half) % Half,
   lo |-> (31 * u.lo + c) % Half]

\* the value 31 (... (31 u + ci) ...) + cj modulo 2^32 for the characters
\* i..j of str, by halves
RECURSIVE Horner31(_, _, _, _)
Horner31(str, u, i, j) ==
  IF i > j THEN u
  ELSE IF i = j THEN Times31Plus(u, charCodeAt(str, i))
  ELSE CHOOSE r \in {Horner31(str, mid, (i + j) \div 2 + 1, j) :
                       mid \in {Horner31(str, u, i, (i + j) \div 2)}} : TRUE

\* the number a string of hexadecimal digits writes, as hi * 2^16 + lo
HexDigit(c) == CHOOSE d \in 0..15 : Char("0123456789abcdef", d + 1) = c

RECURSIVE HexValue(_)
HexValue(str) ==
  IF Len(str) = 0 THEN 0
  ELSE 16 * HexValue(SubSeq(str, 1, Len(str) - 1)) + HexDigit(Char(str, Len(str)))

\* C9: h is 0 at the start and after every character is the signed 32-bit form
\* of 31 h + c; the string returned is "0x", eight digits 0 and the
\* eight hexadecimal digits of abs(h), at most 2^31; "" gives all zeros
C9_HashFixedWidth ==
  /\ hAcc.hi \in (0 - Half \div 2)..(Half \div 2 - 1)
  /\ hAcc.lo \in 0..(Half - 1)
  /\ hPos = 0 => hAcc = Wide(0, 0)
  /\ [hi |-> hAcc.hi % Half, lo |-> hAcc.lo] = Horner31(hInput, [hi |-> 0, lo |-> 0], 1, hPos)
  /\ hOut # "" =>
       /\ Len(hOut) = 18
       /\ SubSeq(hOut, 1, 10) = "0x00000000"
       /\ Wide(HexValue(SubSeq(hOut, 11, 14)), HexValue(SubSeq(hOut, 15, 18))) = WAbs(hAcc)
       /\ HexValue(SubSeq(hOut, 11, 14)) <= Half \div 2
       /\ HexValue(SubSeq(hOut, 11, 14)) = Half \div 2 => HexValue(SubSeq(hOut, 15, 18)) = 0
       /\ hOut = hash(hInput)
       /\ hInput = "" => hOut = "0x0000000000000000"

\* a string whose h ends at -2^31: the largest abs(h)
C9_MostNegative ==
  /\ hOut = "0x0000000080000000"
  /\ hAcc = Wide(0 - Half \div 2, 0)
  /\ hPos = Len(hInput)

====
